---- MODULE Spec2Model ----
(***************************************************************************)
(* Model of the set editor of sportscard-inventory                         *)
(* (src/app/set/[slug]/page.tsx): the Row Store held in React state, the   *)
(* import normalizer, the derived sorted/filtered view, the debounced      *)
(* autosave and its closures, and the localStorage index and sets.         *)
(*                                                                         *)
(* Text is a sequence of one-character strings, so that stripping,         *)
(* trimming, parsing and formatting are computed and not assumed.          *)
(* A JavaScript number is a decimal [neg, mag, d] of value                 *)
(* (-1)^neg * mag / 10^d, or NaN.  The texts the model feeds to Number()   *)
(* hold no exponent, hexadecimal or Infinity literal.                      *)
(***************************************************************************)
EXTENDS Integers, Sequences, FiniteSets, TLC

(* ------------------------------ bounds -------------------------------- *)
\* most rows a Row Store holds in the editor session
MaxRows == 2
\* most timers ever created by setTimeout in one run
MaxTimers == 2
\* most index entries (datasets) created in one run
MaxSets == 2
\* most Papa.parse calls in flight at a time
MaxParses == 1
\* rows of a Row Store in the sort specification
MaxSortRows == 3

(* ------------------------------- text --------------------------------- *)
Digits == {"0", "1", "2", "3", "4", "5", "6", "7", "8", "9"}
LowerLetters ==
  {"a", "b", "c", "d", "e", "f", "g", "h", "i", "j", "k", "l", "m",
   "n", "o", "p", "q", "r", "s", "t", "u", "v", "w", "x", "y", "z"}
\* the no-break space de-DE puts before the currency sign
Nbsp == "(nbsp)"
\* the characters trim and Number drop at the ends: the space and the
\* no-break space among them
WhiteSpace == {" ", Nbsp}

DigitVal(c) ==
  CASE c = "0" -> 0 [] c = "1" -> 1 [] c = "2" -> 2 [] c = "3" -> 3
    [] c = "4" -> 4 [] c = "5" -> 5 [] c = "6" -> 6 [] c = "7" -> 7
    [] c = "8" -> 8 [] c = "9" -> 9

DigitChar(n) ==
  CASE n = 0 -> "0" [] n = 1 -> "1" [] n = 2 -> "2" [] n = 3 -> "3"
    [] n = 4 -> "4" [] n = 5 -> "5" [] n = 6 -> "6" [] n = 7 -> "7"
    [] n = 8 -> "8" [] n = 9 -> "9"

\* String.prototype.toLowerCase, one character
LowerChar(c) ==
  CASE c = "A" -> "a" [] c = "B" -> "b" [] c = "C" -> "c" [] c = "D" -> "d"
    [] c = "E" -> "e" [] c = "F" -> "f" [] c = "G" -> "g" [] c = "H" -> "h"
    [] c = "I" -> "i" [] c = "J" -> "j" [] c = "K" -> "k" [] c = "L" -> "l"
    [] c = "M" -> "m" [] c = "N" -> "n" [] c = "O" -> "o" [] c = "P" -> "p"
    [] c = "Q" -> "q" [] c = "R" -> "r" [] c = "S" -> "s" [] c = "T" -> "t"
    [] c = "U" -> "u" [] c = "V" -> "v" [] c = "W" -> "w" [] c = "X" -> "x"
    [] c = "Y" -> "y" [] c = "Z" -> "z" [] OTHER -> c

toLowerCase(s) == [i \in 1..Len(s) |-> LowerChar(s[i])]

RECURSIVE TrimStart(_)
TrimStart(s) ==
  IF s # <<>> /\ Head(s) \in WhiteSpace THEN TrimStart(Tail(s)) ELSE s

RECURSIVE TrimEnd(_)
TrimEnd(s) ==
  IF s # <<>> /\ s[Len(s)] \in WhiteSpace
  THEN TrimEnd(SubSeq(s, 1, Len(s) - 1)) ELSE s

\* String.prototype.trim
trim(s) == TrimEnd(TrimStart(s))

\* String.prototype.slice(0, n)
SliceTo(s, n) == SubSeq(s, 1, IF Len(s) < n THEN Len(s) ELSE n)

KeepChars(s, keep) == SelectSeq(s, LAMBDA c : c \in keep)

CountChar(s, ch) == Cardinality({i \in 1..Len(s) : s[i] = ch})

Pow10(n) == CASE n = 0 -> 1 [] n = 1 -> 10 [] n = 2 -> 100 [] n = 3 -> 1000
              [] n = 4 -> 10000 [] n = 5 -> 100000 [] n = 6 -> 1000000

RECURSIVE DigitsValue(_)
DigitsValue(s) ==
  IF s = <<>> THEN 0
  ELSE 10 * DigitsValue(SubSeq(s, 1, Len(s) - 1)) + DigitVal(s[Len(s)])

RECURSIVE NatToText(_)
NatToText(n) ==
  IF n < 10 THEN <<DigitChar(n)>>
  ELSE NatToText(n \div 10) \o <<DigitChar(n % 10)>>

(* ------------------------------ numbers ------------------------------- *)
NaN == [nan |-> TRUE, neg |-> FALSE, mag |-> 0, d |-> 0]
Num(neg, mag, d) == [nan |-> FALSE, neg |-> neg, mag |-> mag, d |-> d]

IsNaN(n) == n.nan
Signed(n) == IF n.neg THEN 0 - n.mag ELSE n.mag
NumLess(a, b) ==
  ~a.nan /\ ~b.nan /\ Signed(a) * Pow10(b.d) < Signed(b) * Pow10(a.d)
NumGreater(a, b) == NumLess(b, a)
NumIsZero(n) == ~n.nan /\ n.mag = 0

\* Number(text): the text trimmed; "" is 0; an optional sign, digits with at
\* most one "." and at least one digit; anything else is NaN
Number(s) ==
  LET t == trim(s) IN
  IF t = <<>> THEN Num(FALSE, 0, 0)
  ELSE
    LET signed == Head(t) \in {"-", "+"}
        body == IF signed THEN Tail(t) ELSE t
        dots == CountChar(body, ".")
        digs == KeepChars(body, Digits)
        wellFormed ==
          /\ \A i \in 1..Len(body) : body[i] \in Digits \cup {"."}
          /\ dots <= 1
          /\ digs # <<>>
        dotAt == IF dots = 0 THEN Len(body) + 1
                 ELSE CHOOSE i \in 1..Len(body) : body[i] = "."
    IN IF wellFormed
       THEN Num(Head(t) = "-", DigitsValue(digs),
                IF dots = 0 THEN 0 ELSE Len(body) - dotAt)
       ELSE NaN

(* --------------------------- constants (9-49) -------------------------- *)
EXPECTED_HEADERS ==
  <<"Card #", "Description", "Owned", "Raw Grade", "Graded",
    "Grading Company", "Grade", "Cost", "Value", "Target Price",
    "Sale Price", "Date Purchased", "Purchased From", "Upload Image(s)">>

HeaderSet == {EXPECTED_HEADERS[i] : i \in 1..Len(EXPECTED_HEADERS)}

Yes == <<"Y", "e", "s">>
No == <<"N", "o">>
Blank == <<>>
NewSlug == <<"n", "e", "w">>

RAW_GRADES ==
  { Blank, <<"G","e","m"," ","M","i","n","t">>, <<"M","i","n","t">>,
    <<"N","M","-","M","T">>, <<"N","M">>, <<"E","X","M","T">>, <<"E","X">>,
    <<"V","G","-","E","X">>, <<"V","G">>, <<"G">>, <<"P">> }

\* a number of halves h as text: (h / 2).toFixed(1) with a trailing ".0" removed
HalvesText(h) ==
  IF h % 2 = 0 THEN NatToText(h \div 2)
  ELSE NatToText(h \div 2) \o <<".", "5">>

\* "", then 10 down to 1 in steps of 0.5
GRADES_NUMERIC == {Blank} \cup {HalvesText(20 - i) : i \in 0..18}

\* every header ascending at its first click
AscendingDir(key) == "asc"

DEFAULT_DIR(key) ==
  IF key \in {"Grade", "Cost", "Value", "Target Price"} THEN "desc" ELSE "asc"

CURRENCY_FIELDS == {"Cost", "Value", "Target Price", "Sale Price"}

(* ---------------------------- helpers (52-86) -------------------------- *)
\* replace(/[^0-9.-]/g, "")
stripCurrency(val) == KeepChars(val, Digits \cup {".", "-"})

\* digits with the separator before every group of three from the right
RECURSIVE Grouped(_, _)
Grouped(ds, sep) ==
  IF Len(ds) <= 3 THEN ds
  ELSE Grouped(SubSeq(ds, 1, Len(ds) - 3), sep) \o <<sep>>
         \o SubSeq(ds, Len(ds) - 2, Len(ds))

\* the default locale of the browser: new Intl.NumberFormat(undefined, ...)
\* formats with it, and it is the same for the whole life of a page
VARIABLE locale

\* locales that write a number the two ways there are: 1,234.50 and 1.234,50
Locales == {"en-US", "de-DE"}

\* Intl.NumberFormat(locale, USD, 2 fraction digits).format(n): the magnitude
\* rounded to cents, halves away from zero; a negative number, -0 included,
\* with "-" in front; en-US gives "$1,234.50" and de-DE "1.234,50 $"
FormatUSD(n) ==
  LET cents == IF n.d <= 2 THEN n.mag * Pow10(2 - n.d)
               ELSE (2 * n.mag + Pow10(n.d - 2)) \div (2 * Pow10(n.d - 2))
      frac == <<DigitChar((cents % 100) \div 10), DigitChar(cents % 10)>>
      sign == IF n.neg THEN <<"-">> ELSE <<>>
  IN IF locale = "en-US"
     THEN sign \o <<"$">> \o Grouped(NatToText(cents \div 100), ",")
            \o <<".">> \o frac
     ELSE sign \o Grouped(NatToText(cents \div 100), ".") \o <<",">>
            \o frac \o <<Nbsp, "$">>

toCurrency(val) ==
  LET n == Number(stripCurrency(val)) IN
  IF IsNaN(n) THEN Blank ELSE FormatUSD(n)

\* /^\d{2}\/\d{2}\/\d{4}$/
isValidMMDDYYYY(s) ==
  /\ Len(s) = 10
  /\ \A i \in {1, 2, 4, 5, 7, 8, 9, 10} : s[i] \in Digits
  /\ s[3] = "/" /\ s[6] = "/"

autoSlashDate(raw) ==
  LET dd == SliceTo(KeepChars(raw, Digits), 8) IN
  IF Len(dd) <= 2 THEN dd
  ELSE IF Len(dd) <= 4 THEN SubSeq(dd, 1, 2) \o <<"/">> \o SubSeq(dd, 3, Len(dd))
  ELSE SubSeq(dd, 1, 2) \o <<"/">> \o SubSeq(dd, 3, 4) \o <<"/">>
         \o SubSeq(dd, 5, Len(dd))

\* replace(/[^a-z0-9]+/g, "-"): every maximal run of other characters
\* becomes one "-"
RECURSIVE DashRuns(_, _)
DashRuns(s, inRun) ==
  IF s = <<>> THEN <<>>
  ELSE IF Head(s) \in LowerLetters \cup Digits
       THEN <<Head(s)>> \o DashRuns(Tail(s), FALSE)
       ELSE (IF inRun THEN <<>> ELSE <<"-">>) \o DashRuns(Tail(s), TRUE)

\* replace(/(^-|-$)/g, "")
StripEdgeDashes(s) ==
  LET a == IF s # <<>> /\ Head(s) = "-" THEN Tail(s) ELSE s
  IN IF a # <<>> /\ a[Len(a)] = "-" THEN SubSeq(a, 1, Len(a) - 1) ELSE a

SlugMaxLen == 80

slugify(s) ==
  SliceTo(StripEdgeDashes(DashRuns(toLowerCase(s), FALSE)), SlugMaxLen)

\* a rounding that only went down would miss the nearest half
FlooredHalves(n) == (2 * Signed(n)) \div Pow10(n.d)

\* Math.round(num * 2): the nearest integer, halves upward
RoundedHalves(n) ==
  (4 * Signed(n) + Pow10(n.d)) \div (2 * Pow10(n.d))

normalizeNumericGrade(input) ==
  LET s == trim(input) IN
  IF s = Blank THEN Blank
  ELSE
    LET num == Number(s) IN
    IF ~IsNaN(num)
    THEN LET roundedHalf == RoundedHalves(num)
             lower == IF roundedHalf < 2 THEN 2 ELSE roundedHalf
             clamped == IF lower > 20 THEN 20 ELSE lower
             asStr == HalvesText(clamped)
         IN IF asStr \in GRADES_NUMERIC THEN asStr ELSE Blank
    ELSE IF s \in GRADES_NUMERIC THEN s ELSE Blank

(* ------------------------------- state -------------------------------- *)
VARIABLES
  localStorage,    \* key -> stored JSON text, for the keys that exist
  paramSlug,       \* the [slug] segment of the route
  slug, datasetTitle, year, brand, desc,   \* useState (175-179)
  rows,            \* the Row Store (181)
  errors,          \* (182)
  saveStatus,      \* (183): "" or "Saved at <time>"
  showNeededOnly, sortKey, sortDir,        \* (186-188)
  saveTimer,       \* saveTimer.current (190): a timer id or NoTimer
  displayRows,     \* the memoized view (396-443)
  timers,          \* the timers setTimeout created that are still to fire
  timerSeq,        \* the number of timers created so far
  parses,          \* Papa.parse calls whose complete callback is still to run
  routePending,    \* router.replace issued and the route not yet changed
  mutated,         \* history: setRows was called since the last autosave write
  rowsSetBy,       \* history: the step that called setRows last
  event,           \* history: the last step taken and what it did
  writable         \* localStorage.setItem stores (FALSE: it throws)

vars ==
  <<localStorage, paramSlug, slug, datasetTitle, year, brand, desc, rows,
    errors, saveStatus, showNeededOnly, sortKey, sortDir, saveTimer,
    displayRows, timers, timerSeq, parses, routePending, mutated, rowsSetBy,
    event, locale, writable>>

NoTimer == 0
NoKey == "(none)"
NoYear == 0

(* ----------------------- localStorage (88-126) ------------------------ *)
\* JSON.stringify of strings, numbers, arrays and plain objects, and
\* JSON.parse of the result, give the value back: a stored text is the value
\* it encodes; a text that JSON.parse rejects is kind "corrupt"
JSONText(value) == [kind |-> "json", val |-> value]
Absent == [kind |-> "absent", val |-> <<>>]
Corrupt == [kind |-> "corrupt", val |-> <<>>]

\* the JSON text of a value that is no array, such as {} or 5
NotArray == [kind |-> "other", val |-> <<>>]

IndexKey == <<"sc_sets_index">>
SetKey(sl) == <<"sc_set_">> \o sl

getItem(store, key) == IF key \in DOMAIN store THEN store[key] ELSE Absent

setItem(store, key, text) ==
  [k \in DOMAIN store \cup {key} |-> IF k = key THEN text ELSE store[k]]

\* what loadIndex returns is an array: the editor's loadIndex returns
\* whatever JSON.parse gives, an array or not
IndexIsArray(store) == getItem(store, IndexKey).kind # "other"

\* raw ? JSON.parse(raw) : [], and [] when JSON.parse throws; its callers
\* read the result as an array only where IndexIsArray holds
loadIndex(store) ==
  LET raw == getItem(store, IndexKey) IN
  IF raw.kind = "json" THEN raw.val ELSE <<>>

saveIndex(store, index) == setItem(store, IndexKey, JSONText(index))

IndexOfSlug(idx, sl) ==
  IF \E i \in 1..Len(idx) : idx[i].slug = sl
  THEN CHOOSE i \in 1..Len(idx) :
         idx[i].slug = sl /\ \A j \in 1..(i - 1) : idx[j].slug # sl
  ELSE 0

\* an index to which every save appended its entry
AppendIndexEntry(store, entry) ==
  saveIndex(store, Append(loadIndex(store), entry))

upsertIndexEntry(store, entry) ==
  LET idx == loadIndex(store)
      i == IndexOfSlug(idx, entry.slug)
  IN saveIndex(store, IF i >= 1 THEN [idx EXCEPT ![i] = entry]
                      ELSE Append(idx, entry))

\* null when the key is absent or its text does not parse
loadSet(store, sl) ==
  LET raw == getItem(store, SetKey(sl)) IN
  IF raw.kind = "json" THEN [found |-> TRUE, set |-> raw.val]
  ELSE [found |-> FALSE, set |-> <<>>]

saveSet(store, sl, data) == setItem(store, SetKey(sl), JSONText(data))

RECURSIVE ProbeSlug(_, _, _)
ProbeSlug(existing, base, i) ==
  LET candidate == base \o <<"-">> \o NatToText(i) IN
  IF candidate \in existing THEN ProbeSlug(existing, base, i + 1)
  ELSE candidate

\* a slug taken without a look at the index
UncheckedSlug(store, base) == base

ensureUniqueSlug(store, base) ==
  LET idx == loadIndex(store)
      existing == {idx[i].slug : i \in 1..Len(idx)}
  IN IF base \in existing THEN ProbeSlug(existing, base, 2) ELSE base

(* ------------------------- statistics (137-142) ----------------------- *)
\* a quotient, kept exact: num / den
Ratio(num, den) == [num |-> num, den |-> den]

\* statistics that took every row for an owned one
AllOwnedStats(rs) ==
  [ownedCount |-> Len(rs), ownedPct |-> Ratio(100, 1), total |-> Len(rs)]

computeOwnedStats(rs) ==
  LET total == Len(rs)
      owned == Cardinality({i \in 1..Len(rs) : rs[i]["Owned"] = Yes})
  IN [ownedCount |-> owned,
      ownedPct |-> IF total # 0 THEN Ratio(owned * 100, total) ELSE Ratio(0, 1),
      total |-> total]

(* --------------------------- sorting (144-167) ------------------------ *)
\* number | null
Null == [isNull |-> TRUE, n |-> NaN]
Some(n) == [isNull |-> FALSE, n |-> n]

\* Number.isFinite(n) ? n : null
FiniteOrNull(n) == IF IsNaN(n) THEN Null ELSE Some(n)

asNumberForSort(field, row) ==
  LET raw == row[field] IN
  IF field = "Grade"
  THEN LET s == trim(raw) IN
       IF s = Blank THEN Null ELSE FiniteOrNull(Number(s))
  ELSE IF field \in CURRENCY_FIELDS
  THEN LET s == stripCurrency(raw) IN
       IF s = Blank THEN Null ELSE FiniteOrNull(Number(s))
  ELSE IF field = "Card #"
  THEN FiniteOrNull(Number(trim(raw)))
  ELSE Null

textForSort(raw) == toLowerCase(raw)

\* the collation order of the characters the model's texts hold: white
\* space, punctuation, symbols, digits, letters
CollationOrder ==
  <<" ", "-", ",", ".", "/", "$",
    "0", "1", "2", "3", "4", "5", "6", "7", "8", "9",
    "a", "b", "c", "d", "e", "f", "g", "h", "i", "j", "k", "l", "m",
    "n", "o", "p", "q", "r", "s", "t", "u", "v", "w", "x", "y", "z">>

CharRank(c) ==
  IF \E i \in 1..Len(CollationOrder) : CollationOrder[i] = c
  THEN CHOOSE i \in 1..Len(CollationOrder) : CollationOrder[i] = c
  ELSE 0

\* String.prototype.localeCompare on lower-cased text: negative, 0, positive
RECURSIVE localeCompare(_, _)
localeCompare(a, b) ==
  IF a = <<>> /\ b = <<>> THEN 0
  ELSE IF a = <<>> THEN -1
  ELSE IF b = <<>> THEN 1
  ELSE IF CharRank(Head(a)) < CharRank(Head(b)) THEN -1
  ELSE IF CharRank(Head(a)) > CharRank(Head(b)) THEN 1
  ELSE localeCompare(Tail(a), Tail(b))

(* ----------------------- the derived view (396-443) ------------------- *)
\* an! < bn! and an! > bn! of the currency branch: null compares as 0, and
\* every comparison with NaN is false
RelLess(a, b) ==
  NumLess(IF a.isNull THEN Num(FALSE, 0, 0) ELSE a.n,
          IF b.isNull THEN Num(FALSE, 0, 0) ELSE b.n)

cmpCurrency(a, b, key, dir) ==
  LET as == stripCurrency(a.row[key])
      bs == stripCurrency(b.row[key])
      an == IF as = Blank THEN Null ELSE Some(Number(as))
      bn == IF bs = Blank THEN Null ELSE Some(Number(bs))
      aEmptyZero == an.isNull \/ NumIsZero(an.n)
      bEmptyZero == bn.isNull \/ NumIsZero(bn.n)
  IN IF aEmptyZero # bEmptyZero THEN (IF aEmptyZero THEN 1 ELSE -1)
     ELSE IF an.isNull /\ bn.isNull THEN 0
     ELSE IF RelLess(an, bn) THEN -1 * dir
     ELSE IF RelLess(bn, an) THEN 1 * dir
     ELSE 0

cmpNumeric(an, bn, dir) ==
  IF an.isNull /\ bn.isNull THEN 0
  ELSE IF an.isNull THEN 1
  ELSE IF bn.isNull THEN -1
  ELSE IF NumLess(an.n, bn.n) THEN -1 * dir
  ELSE IF NumGreater(an.n, bn.n) THEN 1 * dir
  ELSE 0

cmpText(a, b, key, dir) ==
  LET at == textForSort(a.row[key])
      bt == textForSort(b.row[key])
      aBlank == at = Blank
      bBlank == bt = Blank
  IN IF aBlank # bBlank THEN (IF aBlank THEN 1 ELSE -1)
     ELSE localeCompare(at, bt) * dir

cmp(a, b, key, dir) ==
  IF key \in CURRENCY_FIELDS THEN cmpCurrency(a, b, key, dir)
  ELSE LET an == asNumberForSort(key, a.row)
           bn == asNumberForSort(key, b.row)
       IN IF ~an.isNull \/ ~bn.isNull THEN cmpNumeric(an, bn, dir)
          ELSE cmpText(a, b, key, dir)

\* the place of x in a sorted sequence: behind every element not above it
RECURSIVE InsertSorted(_, _, _, _)
InsertSorted(sorted, x, key, dir) ==
  IF sorted = <<>> THEN <<x>>
  ELSE IF cmp(sorted[Len(sorted)], x, key, dir) <= 0 THEN Append(sorted, x)
  ELSE Append(InsertSorted(SubSeq(sorted, 1, Len(sorted) - 1), x, key, dir),
              sorted[Len(sorted)])

RECURSIVE StableSorted(_, _, _)
StableSorted(items, key, dir) ==
  IF items = <<>> THEN <<>>
  ELSE InsertSorted(StableSorted(SubSeq(items, 1, Len(items) - 1), key, dir),
                    items[Len(items)], key, dir)

\* a consistent comparator (ECMAScript, Array.prototype.sort): c[i, j] is
\* the value the comparator returns for the items at i and j
Consistent(c, ix) ==
  /\ c \in [ix \X ix -> Int]
  /\ \A i \in ix : c[i, i] = 0
  /\ \A i, j \in ix : c[i, j] = 0 => c[j, i] = 0
  /\ \A i, j, k \in ix :
       /\ (c[i, j] = 0 /\ c[j, k] = 0) => c[i, k] = 0
       /\ (c[i, j] < 0 /\ c[j, k] < 0) => c[i, k] < 0
       /\ (c[i, j] > 0 /\ c[j, k] > 0) => c[i, k] > 0

ConsistentComparator(items, key, dir) ==
  Consistent([i \in 1..Len(items), j \in 1..Len(items) |->
                cmp(items[i], items[j], key, dir)],
             1..Len(items))

Orderings(items) ==
  LET ix == 1..Len(items) IN
  { [i \in ix |-> items[p[i]]] :
      p \in {q \in [ix -> ix] : \A i, j \in ix : i # j => q[i] # q[j]} }

\* [...items].sort(cmp): the stable sorted order; with a comparator that is
\* not consistent the order is implementation-defined
SortOutcomes(items, key, dir) ==
  IF ConsistentComparator(items, key, dir)
  THEN {StableSorted(items, key, dir)}
  ELSE Orderings(items)

RECURSIVE WithIndex(_, _)
WithIndex(rs, n) ==
  IF n = 0 THEN <<>>
  ELSE Append(WithIndex(rs, n - 1), [row |-> rs[n], origIndex |-> n - 1])

\* a view that ignored the needed-only setting
Unfiltered(all, needed) == all

\* showNeededOnly ? withIndex.filter(Owned !== "Yes") : withIndex
NeededFilter(all, needed) ==
  IF needed THEN SelectSeq(all, LAMBDA e : e.row["Owned"] # Yes) ELSE all

\* if (!sortKey) return filtered; else the sorted copy
SortedView(filtered, key, dir) ==
  IF key = NoKey THEN {filtered} ELSE SortOutcomes(filtered, key, dir)

\* the values displayRows may take for the dependencies given
Views(rs, needed, key, dirName) ==
  SortedView(NeededFilter(WithIndex(rs, Len(rs)), needed), key,
             IF dirName = "asc" THEN 1 ELSE -1)

(* ------------------------------- inputs ------------------------------- *)
EmDash == "(em dash)"

Years == {2020}
BRANDS == {<<"T","o","p","p","s">>}
\* descriptions typed into the title form; the first two give the same slug
FirstDesc == <<"B","a","s","e">>
Descs == {FirstDesc, <<" ","b","a","s","e","!">>}

BlankRecord == [h \in HeaderSet |-> Blank]

\* the records of the files the user imports
RawRecords ==
  << [BlankRecord EXCEPT !["Card #"] = <<"1">>,
                         !["Description"] = <<"A","c","e">>,
                         !["Owned"] = <<"y","e","s">>,
                         !["Grade"] = <<"7",".","3">>,
                         !["Cost"] = <<"5">>],
     [BlankRecord EXCEPT !["Description"] = <<" ">>,
                         !["Owned"] = <<"N","O">>,
                         !["Graded"] = <<"m","a","y","b","e">>,
                         !["Cost"] = <<"$","0",".","0","0">>],
     [BlankRecord EXCEPT !["Card #"] = <<"2">>,
                         !["Owned"] = <<"1">>,
                         !["Grade"] = <<"1","1">>,
                         !["Cost"] = <<"1","0">>],
     [BlankRecord EXCEPT !["Card #"] = <<"x">>,
                         !["Description"] = <<"B","a","t">>,
                         !["Cost"] = <<"1","-","2">>],
     [BlankRecord EXCEPT !["Card #"] = <<"1","0">>,
                         !["Description"] = <<"a","c","e">>,
                         !["Grade"] = <<"7",".","5">>] >>

Restrict(r, hs) == [h \in hs |-> r[h]]

\* what Papa.parse hands to complete: meta.fields and data
ParsedFile(hs, n) ==
  [fields |-> hs,
   data |-> [i \in 1..n |-> Restrict(RawRecords[i], hs \cap HeaderSet)]]

Files ==
  { ParsedFile(HeaderSet, IF MaxRows < Len(RawRecords) THEN MaxRows
                          ELSE Len(RawRecords)),
    ParsedFile(HeaderSet \ {"Grade"}, 1),
    ParsedFile(HeaderSet \ {"Cost", "Upload Image(s)"}, 1) }

\* the cell edits the table's controls issue: field and new value
CellEdits ==
  { <<"Owned", Yes>>, <<"Owned", No>>, <<"Cost", <<"7">>>> }

(* ------------------------ autosave (222-246) -------------------------- *)
\* a scheduleAutoSave that cancelled nothing would leave every timer pending
KeptTimers(ts, current) == ts

\* if (saveTimer.current) clearTimeout(saveTimer.current)
ClearedTimers(ts, current) ==
  IF current # NoTimer THEN {t \in ts : t.id # current} ELSE ts

\* the state a handler reads: the values of the render that created it
Closure ==
  [slug |-> slug, datasetTitle |-> datasetTitle, year |-> year,
   brand |-> brand, desc |-> desc, rows |-> rows]

\* nextRows ?? rows: both are fixed when the timer is created, rows being
\* the Row Store of the render whose handler called scheduleAutoSave
SavedRows(c, hasNext, nextRows) == IF hasNext THEN nextRows ELSE c.rows

\* scheduleAutoSave(nextRows) called from a handler with closure c; without
\* an argument hasNext is FALSE.  The timer keeps what its callback reads.
scheduleAutoSave(c, hasNext, nextRows) ==
  /\ timerSeq < MaxTimers
  /\ timerSeq' = timerSeq + 1
  /\ timers' = ClearedTimers(timers, saveTimer)
                 \cup {[id |-> timerSeq + 1,
                        c |-> [c EXCEPT !.rows = SavedRows(c, hasNext, nextRows)]]}
  /\ saveTimer' = timerSeq + 1

\* Date.now() and toLocaleTimeString(): an instant the model does not tell
\* from another
Now == "now"

IndexEntry(sl, title, c, rs) ==
  LET stats == computeOwnedStats(rs) IN
  [slug |-> sl, title |-> title, year |-> c.year, brand |-> c.brand,
   desc |-> c.desc, updatedAt |-> Now, rowCount |-> Len(rs),
   ownedCount |-> stats.ownedCount, ownedPct |-> stats.ownedPct]

Payload(title, c, rs) ==
  [title |-> title, year |-> c.year, brand |-> c.brand, desc |-> c.desc,
   rows |-> rs]

\* the record of a step: the handler, the timer that fired, whether it
\* wrote, and whether setRows had been called since the autosave write before
EvArg(op, id, wrote, arg) ==
  [op |-> op, id |-> id, wrote |-> wrote, dirty |-> mutated, arg |-> arg]

Ev(op, id, wrote) == EvArg(op, id, wrote, NoKey)

\* the op of a step whose handler was left by an exception nothing caught;
\* the step's arg names the call that threw
Uncaught == "uncaught"

\* a callback that took every dataset for a named one
NeverUnnamed(c) == FALSE

\* if (!slug || slug === "new" || !datasetTitle) return, on the values the
\* callback closed over
Unnamed(c) == c.slug = Blank \/ c.slug = NewSlug \/ c.datasetTitle = Blank

\* the callback of a timer: lines 226-244
TimerFire(t) ==
  /\ t \in timers
  /\ timers' = timers \ {t}
  /\ IF Unnamed(t.c)
     THEN /\ event' = Ev("TimerFire", t.id, FALSE)
          /\ UNCHANGED <<localStorage, saveStatus, mutated>>
     ELSE IF ~writable
     \* setItem throws in saveSet and nothing catches it
     THEN /\ event' = EvArg(Uncaught, t.id, FALSE, "saveSet")
          /\ UNCHANGED <<localStorage, saveStatus, mutated>>
     ELSE IF ~IndexIsArray(localStorage)
     \* idx.findIndex is no function: upsertIndexEntry throws after saveSet
     THEN /\ localStorage' = saveSet(localStorage, t.c.slug,
                                     Payload(t.c.datasetTitle, t.c, t.c.rows))
          /\ event' = EvArg(Uncaught, t.id, FALSE, "upsertIndexEntry")
          /\ UNCHANGED <<saveStatus, mutated>>
     ELSE /\ localStorage' =
               upsertIndexEntry(
                 saveSet(localStorage, t.c.slug,
                         Payload(t.c.datasetTitle, t.c, t.c.rows)),
                 IndexEntry(t.c.slug, t.c.datasetTitle, t.c, t.c.rows))
          /\ saveStatus' = [saved |-> TRUE, at |-> Now]
          /\ mutated' = FALSE
          /\ event' = Ev("TimerFire", t.id, TRUE)
  /\ UNCHANGED <<locale, writable, paramSlug, slug, datasetTitle, year, brand, desc, rows,
                 errors, showNeededOnly, sortKey, sortDir, saveTimer,
                 displayRows, timerSeq, parses, routePending, rowsSetBy>>

(* ------------------------- import (248-307) --------------------------- *)
Field(r, h) == IF h \in DOMAIN r THEN r[h] ELSE Blank

YesNo(raw) ==
  LET val == toLowerCase(trim(raw)) IN
  IF val \in {<<"y","e","s">>, <<"y">>, <<"t","r","u","e">>, <<"1">>} THEN Yes
  ELSE IF val \in {<<"n","o">>, <<"n">>, <<"f","a","l","s","e">>, <<"0">>}
  THEN No
  ELSE Blank

NormCurrency(raw) ==
  IF trim(raw) # Blank
  THEN LET stripped == stripCurrency(raw) IN
       IF ~IsNaN(Number(stripped)) THEN toCurrency(stripped) ELSE raw
  ELSE raw

NormDate(raw) ==
  LET dt == trim(raw)
      digits == KeepChars(dt, Digits)
  IN IF dt # Blank /\ Len(digits) = 8
     THEN SubSeq(digits, 1, 2) \o <<"/">> \o SubSeq(digits, 3, 4) \o <<"/">>
            \o SubSeq(digits, 5, 8)
     ELSE raw

\* the row made of one parsed record: lines 263-300
NormalizeRow(r) ==
  [h \in HeaderSet |->
     LET raw == Field(r, h) IN
     IF h \in {"Owned", "Graded"} THEN YesNo(raw)
     ELSE IF h = "Raw Grade"
     THEN (IF trim(raw) \in RAW_GRADES THEN trim(raw) ELSE Blank)
     ELSE IF h = "Grade" THEN normalizeNumericGrade(raw)
     ELSE IF h \in CURRENCY_FIELDS THEN NormCurrency(raw)
     ELSE IF h = "Date Purchased" THEN NormDate(raw)
     ELSE IF h = "Card #"
     THEN (IF IsNaN(Number(trim(raw))) THEN Blank ELSE raw)
     ELSE IF h = "Description"
     THEN (IF trim(raw) = Blank THEN Blank ELSE raw)
     ELSE raw]

\* EXPECTED_HEADERS.filter((h) => !incomingHeaders.includes(h))
MissingHeaders(fields) ==
  SelectSeq(EXPECTED_HEADERS, LAMBDA h : h \notin fields)

\* what the complete callback reads of its render: it reads no rows
ParseClosure == [Closure EXCEPT !.rows = <<>>]

\* handleFileChosen: the errors are cleared and the file is handed to the
\* parser together with the handlers of this render
handleFileChosen(file) ==
  /\ Cardinality(parses) < MaxParses
  /\ errors' = <<>>
  /\ parses' = parses \cup {[file |-> file, c |-> ParseClosure]}
  /\ event' = Ev("handleFileChosen", NoTimer, FALSE)
  /\ UNCHANGED <<locale, writable, localStorage, paramSlug, slug, datasetTitle, year, brand,
                 desc, rows, saveStatus, showNeededOnly, sortKey, sortDir,
                 saveTimer, displayRows, timers, timerSeq, routePending,
                 mutated, rowsSetBy>>

\* the complete callback of Papa.parse: lines 254-304
ParseComplete(p) ==
  /\ p \in parses
  /\ parses' = parses \ {p}
  /\ LET missing == MissingHeaders(p.file.fields) IN
     IF Len(missing) > 0
     THEN /\ errors' = <<[kind |-> "missing columns", names |-> missing]>>
          /\ rows' = <<>>
          /\ rowsSetBy' = "importFailed"
          /\ event' = Ev("importFailed", NoTimer, FALSE)
          /\ UNCHANGED <<timers, timerSeq, saveTimer>>
     ELSE LET cleaned == [i \in 1..Len(p.file.data) |->
                            NormalizeRow(p.file.data[i])]
          IN /\ rows' = cleaned
             /\ scheduleAutoSave(p.c, TRUE, cleaned)
             /\ rowsSetBy' = "import"
             /\ event' = Ev("imported", NoTimer, FALSE)
             /\ UNCHANGED errors
  /\ mutated' = TRUE
  /\ displayRows' \in Views(rows', showNeededOnly, sortKey, sortDir)
  /\ UNCHANGED <<locale, writable, localStorage, paramSlug, slug, datasetTitle, year, brand,
                 desc, saveStatus, showNeededOnly, sortKey, sortDir,
                 routePending>>

\* the error callback of Papa.parse: line 305
ParseError(p) ==
  /\ p \in parses
  /\ parses' = parses \ {p}
  /\ errors' = <<[kind |-> "parse error", names |-> <<>>]>>
  /\ event' = Ev("ParseError", NoTimer, FALSE)
  /\ UNCHANGED <<locale, writable, localStorage, paramSlug, slug, datasetTitle, year, brand,
                 desc, rows, saveStatus, showNeededOnly, sortKey, sortDir,
                 saveTimer, displayRows, timers, timerSeq, routePending,
                 mutated, rowsSetBy>>

(* ----------------------- title form (216-220, 529-582) ---------------- *)
canCreateTitle == year # NoYear /\ brand # Blank /\ Len(trim(desc)) > 0

FormUnchanged ==
  UNCHANGED <<locale, writable, localStorage, paramSlug, slug, datasetTitle, rows, errors,
              saveStatus, showNeededOnly, sortKey, sortDir, saveTimer,
              displayRows, timers, timerSeq, parses, routePending, mutated,
              rowsSetBy>>

setYear(y) ==
  /\ year # y
  /\ year' = y
  /\ event' = Ev("setYear", NoTimer, FALSE)
  /\ UNCHANGED <<brand, desc>>
  /\ FormUnchanged

setBrand(b) ==
  /\ brand # b
  /\ year # NoYear
  /\ brand' = b
  /\ event' = Ev("setBrand", NoTimer, FALSE)
  /\ UNCHANGED <<year, desc>>
  /\ FormUnchanged

setDesc(d) ==
  /\ desc # d
  /\ brand # Blank
  /\ desc' = d
  /\ event' = Ev("setDesc", NoTimer, FALSE)
  /\ UNCHANGED <<year, brand>>
  /\ FormUnchanged

(* ------------------------ Save Title (309-337) ------------------------ *)
\* `${year} ${brand} - ${desc.trim()}`, with an em dash
TitleOf(y, b, d) ==
  NatToText(y) \o <<" ">> \o b \o <<" ", EmDash, " ">> \o trim(d)

NoRoute == [pending |-> FALSE, to |-> Blank]

handleCreateTitle ==
  /\ canCreateTitle
  /\ LET newTitle == TitleOf(year, brand, desc)
         base == slugify(newTitle)
         unique == IF slug = NewSlug THEN ensureUniqueSlug(localStorage, base)
                   ELSE slug
     IN IF slug = NewSlug /\ ~IndexIsArray(localStorage)
        \* idx.map is no function: ensureUniqueSlug throws
        THEN /\ event' = EvArg(Uncaught, NoTimer, FALSE, "ensureUniqueSlug")
             /\ UNCHANGED <<localStorage, datasetTitle, slug, routePending>>
        ELSE IF ~writable
        \* setItem throws in saveSet and nothing catches it
        THEN /\ event' = EvArg(Uncaught, NoTimer, FALSE, "saveSet")
             /\ UNCHANGED <<localStorage, datasetTitle, slug, routePending>>
        ELSE IF ~IndexIsArray(localStorage)
        \* upsertIndexEntry throws after saveSet wrote the Set
        THEN /\ localStorage' =
                  saveSet(localStorage, unique,
                          Payload(newTitle, Closure, rows))
             /\ event' = EvArg(Uncaught, NoTimer, FALSE, "upsertIndexEntry")
             /\ UNCHANGED <<datasetTitle, slug, routePending>>
        ELSE /\ slug = NewSlug => Len(loadIndex(localStorage)) < MaxSets
             /\ localStorage' =
                  upsertIndexEntry(
                    saveSet(localStorage, unique,
                            Payload(newTitle, Closure, rows)),
                    IndexEntry(unique, newTitle, Closure, rows))
             /\ datasetTitle' = newTitle
             /\ slug' = unique
             /\ routePending' = IF slug = NewSlug
                                THEN [pending |-> TRUE, to |-> unique]
                                ELSE routePending
             /\ event' = Ev("handleCreateTitle", NoTimer, TRUE)
  /\ UNCHANGED <<locale, writable, paramSlug, year, brand, desc, rows, errors,
                 saveStatus, showNeededOnly, sortKey, sortDir, saveTimer,
                 displayRows, timers, timerSeq, parses, mutated, rowsSetBy>>

(* ----------------------- loading a set (192-214) ---------------------- *)
\* the state the effect sets for route segment p, from the state cur
EffectState(store, p, cur) ==
  IF p # NewSlug
  THEN LET existing == loadSet(store, p) IN
       IF existing.found
       THEN [slug |-> p, datasetTitle |-> existing.set.title,
             year |-> existing.set.year, brand |-> existing.set.brand,
             desc |-> existing.set.desc, rows |-> existing.set.rows,
             setRows |-> TRUE]
       ELSE [cur EXCEPT !.slug = p] @@ [setRows |-> FALSE]
  ELSE [slug |-> NewSlug, datasetTitle |-> Blank, year |-> NoYear,
        brand |-> Blank, desc |-> Blank, rows |-> <<>>, setRows |-> TRUE]

ApplyEffect(st) ==
  /\ slug' = st.slug
  /\ datasetTitle' = st.datasetTitle
  /\ year' = st.year
  /\ brand' = st.brand
  /\ desc' = st.desc
  /\ rows' = st.rows

\* the route changes after router.replace and the effect runs for the new
\* segment, in the component that issued it
RouteReplaced ==
  /\ routePending.pending
  /\ paramSlug' = routePending.to
  /\ routePending' = NoRoute
  /\ LET st == EffectState(localStorage, routePending.to, Closure) IN
     /\ ApplyEffect(st)
     /\ IF st.setRows
        THEN /\ displayRows' \in Views(rows', showNeededOnly, sortKey, sortDir)
             /\ mutated' = TRUE
             /\ rowsSetBy' = "load"
        ELSE UNCHANGED <<displayRows, mutated, rowsSetBy>>
  /\ event' = Ev("RouteReplaced", NoTimer, FALSE)
  /\ UNCHANGED <<locale, writable, localStorage, errors, saveStatus, showNeededOnly, sortKey,
                 sortDir, saveTimer, timers, timerSeq, parses>>

NoStatus == [saved |-> FALSE, at |-> ""]

\* the state of useState at mount, before the effect
MountState(p) ==
  [slug |-> p, datasetTitle |-> Blank, year |-> NoYear, brand |-> Blank,
   desc |-> Blank, rows |-> <<>>]

\* the browser loads /set/p: a new document, so no timer and no parse of the
\* old one is left, and the component mounts and runs its effect
OpenPage(p) ==
  /\ paramSlug' = p
  /\ ApplyEffect(EffectState(localStorage, p, MountState(p)))
  /\ errors' = <<>>
  /\ saveStatus' = NoStatus
  /\ showNeededOnly' = FALSE
  /\ sortKey' = NoKey
  /\ sortDir' = "asc"
  /\ saveTimer' = NoTimer
  /\ timers' = {}
  /\ parses' = {}
  /\ routePending' = NoRoute
  /\ displayRows' \in Views(rows', FALSE, NoKey, "asc")
  /\ mutated' = TRUE
  /\ rowsSetBy' = "load"
  /\ event' = Ev("OpenPage", NoTimer, FALSE)
  /\ UNCHANGED <<locale, writable, localStorage, timerSeq>>

(* ------------------------ cell changes (339-383) ---------------------- *)
PurchasedFromMax == 50

\* the value onChangeCell stores in the field
CellValue(field, value) ==
  IF field = "Purchased From" /\ Len(value) > PurchasedFromMax
  THEN SliceTo(value, PurchasedFromMax)
  ELSE IF field \in CURRENCY_FIELDS THEN value
  ELSE IF field = "Date Purchased" THEN autoSlashDate(value)
  ELSE value

\* { ...copy[index] }: the row at the index, and for an index the rows do
\* not have an object without fields, every field of which reads as blank
RowAt(prev, index) ==
  IF index \in 0..(Len(prev) - 1) THEN prev[index + 1] ELSE BlankRecord

\* copy[index] = r (indices count from 0): at the index just past the last
\* row the assignment makes the array one longer
SetRow(prev, index, r) ==
  IF index \in 0..(Len(prev) - 1) THEN [prev EXCEPT ![index + 1] = r]
  ELSE Append(prev, r)

RowsUnchanged ==
  UNCHANGED <<locale, writable, localStorage, paramSlug, slug, datasetTitle, year, brand, desc,
              errors, saveStatus, showNeededOnly, sortKey, sortDir, parses,
              routePending>>

\* what every cell handler does after its setRows
AfterSetRows(op) ==
  /\ scheduleAutoSave(Closure, FALSE, <<>>)
  /\ displayRows' \in Views(rows', showNeededOnly, sortKey, sortDir)
  /\ mutated' = TRUE
  /\ rowsSetBy' = "edit"
  /\ event' = Ev(op, NoTimer, FALSE)
  /\ RowsUnchanged

\* the handlers take every index up to the one just past the last row; an
\* index further out would leave holes in the array
onChangeCell(index, field, value) ==
  /\ index \in 0..Len(rows)
  /\ rows' = SetRow(rows, index,
                    [RowAt(rows, index) EXCEPT
                       ![field] = CellValue(field, value)])
  /\ AfterSetRows("onChangeCell")

onBlurCurrency(index, field) ==
  /\ index \in 0..Len(rows)
  /\ LET raw == stripCurrency(RowAt(rows, index)[field]) IN
     rows' = SetRow(rows, index,
                    [RowAt(rows, index) EXCEPT
                       ![field] = IF raw # Blank THEN toCurrency(raw)
                                  ELSE Blank])
  /\ AfterSetRows("onBlurCurrency")

onBlurDate(index) ==
  /\ index \in 0..Len(rows)
  /\ rows' = SetRow(rows, index, RowAt(rows, index))
  /\ AfterSetRows("onBlurDate")

\* the indices the rendered table routes its handlers to: lines 629-697
Displayed == {displayRows[i].origIndex : i \in 1..Len(displayRows)}

(* ------------------------ sort and filter (445-452, 593) -------------- *)
ViewUnchanged ==
  UNCHANGED <<locale, writable, localStorage, paramSlug, slug, datasetTitle, year, brand, desc,
              rows, errors, saveStatus, saveTimer, timers, timerSeq, parses,
              routePending, mutated, rowsSetBy>>

handleSortClick(key) ==
  /\ IF sortKey # key
     THEN /\ sortKey' = key
          /\ sortDir' = DEFAULT_DIR(key)
     ELSE /\ sortDir' = (IF sortDir = "asc" THEN "desc" ELSE "asc")
          /\ UNCHANGED sortKey
  /\ displayRows' \in Views(rows, showNeededOnly, sortKey', sortDir')
  /\ event' = EvArg("handleSortClick", NoTimer, FALSE, key)
  /\ UNCHANGED showNeededOnly
  /\ ViewUnchanged

\* setShowNeededOnly(s => !s)
toggleNeededOnly ==
  /\ datasetTitle # Blank
  /\ showNeededOnly' = ~showNeededOnly
  /\ displayRows' \in Views(rows, showNeededOnly', sortKey, sortDir)
  /\ event' = Ev("toggleNeededOnly", NoTimer, FALSE)
  /\ UNCHANGED <<sortKey, sortDir>>
  /\ ViewUnchanged

\* the headers rendered as SortableHeader: lines 610-622
SortableKeys == HeaderSet \ {"Upload Image(s)"}

(* --------------------------- specification ---------------------------- *)
\* the editor opened at /set/new in a browser that holds no set yet
Init ==
  /\ locale = "en-US"
  /\ writable = TRUE
  /\ localStorage = << >>
  /\ paramSlug = NewSlug
  /\ slug = NewSlug
  /\ datasetTitle = Blank
  /\ year = NoYear
  /\ brand = Blank
  /\ desc = Blank
  /\ rows = <<>>
  /\ errors = <<>>
  /\ saveStatus = NoStatus
  /\ showNeededOnly = FALSE
  /\ sortKey = NoKey
  /\ sortDir = "asc"
  /\ saveTimer = NoTimer
  /\ displayRows = <<>>
  /\ timers = {}
  /\ timerSeq = 0
  /\ parses = {}
  /\ routePending = NoRoute
  /\ mutated = FALSE
  /\ rowsSetBy = "init"
  /\ event = [op |-> "init", id |-> NoTimer, wrote |-> FALSE,
              dirty |-> FALSE, arg |-> NoKey]

KnownSlugs ==
  LET idx == loadIndex(localStorage) IN {idx[i].slug : i \in 1..Len(idx)}

\* one editing session of one dataset, from its import to its autosaves
Next ==
  \/ \E f \in Files : handleFileChosen(f)
  \/ \E p \in parses : ParseComplete(p)
  \/ \E p \in parses : ParseError(p)
  \/ \E y \in Years : setYear(y)
  \/ \E b \in BRANDS : setBrand(b)
  \/ setDesc(FirstDesc)
  \/ handleCreateTitle
  \/ RouteReplaced
  \/ \E i \in Displayed, e \in CellEdits : onChangeCell(i, e[1], e[2])
  \/ \E i \in Displayed : onBlurCurrency(i, "Cost")
  \/ \E i \in Displayed : onBlurDate(i)
  \/ \E t \in timers : TimerFire(t)

Spec == Init /\ [][Next]_vars

\* several datasets named one after the other, the page loaded anew between
NextSets ==
  \/ handleFileChosen(ParsedFile(HeaderSet, 2))
  \/ \E p \in parses : ParseComplete(p)
  \/ \E y \in Years : setYear(y)
  \/ \E b \in BRANDS : setBrand(b)
  \/ \E d \in Descs : setDesc(d)
  \/ handleCreateTitle
  \/ RouteReplaced
  \/ \E p \in {NewSlug} \cup KnownSlugs : OpenPage(p)
  \/ \E i \in Displayed : onChangeCell(i, "Owned", Yes)
  \/ \E t \in timers : TimerFire(t)

SpecSets == Init /\ [][NextSets]_vars

\* the rows a Row Store can hold after an import
RowPool == {NormalizeRow(RawRecords[i]) : i \in 1..Len(RawRecords)}

RECURSIVE SeqsUpTo(_, _)
SeqsUpTo(S, n) ==
  IF n = 0 THEN {<<>>}
  ELSE LET shorter == SeqsUpTo(S, n - 1) IN
       shorter \cup {Append(q, x) : q \in {r \in shorter : Len(r) = n - 1},
                                    x \in S}

SortSlug == slugify(TitleOf(2020, <<"T","o","p","p","s">>, FirstDesc))

\* the browser's storage after a set with the rows rs was named and saved
StoredSet(rs) ==
  LET c == [slug |-> SortSlug,
            datasetTitle |-> TitleOf(2020, <<"T","o","p","p","s">>, FirstDesc),
            year |-> 2020, brand |-> <<"T","o","p","p","s">>,
            desc |-> FirstDesc, rows |-> rs]
  IN upsertIndexEntry(saveSet(<< >>, SortSlug, Payload(c.datasetTitle, c, rs)),
                      IndexEntry(SortSlug, c.datasetTitle, c, rs))

\* the saved tables the sort view is exercised on: no card listed twice
SortTables ==
  {q \in SeqsUpTo(RowPool, MaxSortRows) :
     \A i, j \in 1..Len(q) : i # j => q[i] # q[j]}

\* the editor opened on a saved set
InitSort ==
  /\ locale = "en-US"
  /\ writable = TRUE
  /\ \E rs \in SortTables :
    /\ localStorage = StoredSet(rs)
    /\ paramSlug = SortSlug
    /\ LET st == EffectState(localStorage, SortSlug, MountState(SortSlug)) IN
       /\ slug = st.slug
       /\ datasetTitle = st.datasetTitle
       /\ year = st.year
       /\ brand = st.brand
       /\ desc = st.desc
       /\ rows = st.rows
    /\ errors = <<>>
    /\ saveStatus = NoStatus
    /\ showNeededOnly = FALSE
    /\ sortKey = NoKey
    /\ sortDir = "asc"
    /\ saveTimer = NoTimer
    /\ displayRows \in Views(rows, FALSE, NoKey, "asc")
    /\ timers = {}
    \* the ids of the timers of the pages opened before are used up
    /\ timerSeq = MaxTimers - 1
    /\ parses = {}
    /\ routePending = NoRoute
    /\ mutated = TRUE
    /\ rowsSetBy = "load"
    /\ event = [op |-> "OpenPage", id |-> NoTimer, wrote |-> FALSE,
                dirty |-> FALSE, arg |-> NoKey]

NextSort ==
  \/ \E k \in SortableKeys : handleSortClick(k)
  \/ toggleNeededOnly
  \/ \E i \in Displayed : onChangeCell(i, "Owned", Yes)

SpecSort == InitSort /\ [][NextSort]_vars

(* ------------------- import normalization, probed ---------------------- *)
\* a seller's name one character longer than the editor's limit
LongSeller == [i \in 1..(PurchasedFromMax + 1) |-> "s"]

\* raw records that take every branch of the normalization of a row
ProbeRecords ==
  { [BlankRecord EXCEPT !["Card #"] = <<" ","7"," ">>,
                        !["Description"] = <<"A","c","e">>,
                        !["Owned"] = <<"y">>,
                        !["Raw Grade"] = <<" ","M","i","n","t"," ">>,
                        !["Grade"] = <<"7",".","3">>,
                        !["Cost"] = <<"1","2","3","4",".","5">>,
                        !["Date Purchased"] = <<"0","1","0","2","2","0","2","0">>,
                        !["Purchased From"] = LongSeller],
    [BlankRecord EXCEPT !["Card #"] = <<"x">>,
                        !["Description"] = <<" ">>,
                        !["Owned"] = <<"m","a","y","b","e">>,
                        !["Graded"] = <<"F","A","L","S","E">>,
                        !["Raw Grade"] = <<"m","i","n","t">>,
                        !["Grade"] = <<"1","1">>,
                        !["Cost"] = <<"a","b","c">>,
                        !["Value"] = <<"-","0">>,
                        !["Date Purchased"] = <<"1","/","2","/","2","0">>],
    [BlankRecord EXCEPT !["Grade"] = <<"0">>,
                        !["Cost"] = <<"1","-","2">>,
                        !["Value"] = <<" ">>,
                        !["Sale Price"] = <<"0",".","0","0","5">>],
    [BlankRecord EXCEPT !["Grade"] = <<"7",".","2","5">>,
                        !["Cost"] = <<"$","5",".","0","0">>],
    [BlankRecord EXCEPT !["Grade"] = <<"a","b","c">>,
                        !["Target Price"] = <<"5">>],
    [BlankRecord EXCEPT !["Grade"] = <<"-","3">>],
    [BlankRecord EXCEPT !["Grade"] = <<" ","8"," ">>] }

\* files of one record each, with every expected header
ProbeFiles == {[fields |-> HeaderSet, data |-> <<r>>] : r \in ProbeRecords}

\* the options of the Grade select the model picks
GradeChoices == {Blank, HalvesText(15), HalvesText(20)}

\* the Grade select: onChangeCell(origIndex, "Grade",
\* normalizeNumericGrade(e.target.value))
onChangeGrade(index, g) ==
  onChangeCell(index, "Grade", normalizeNumericGrade(g))

\* the editor at /set/new in a browser of either locale
InitImport ==
  /\ locale \in Locales
  /\ writable = TRUE
  /\ localStorage = << >>
  /\ paramSlug = NewSlug
  /\ slug = NewSlug
  /\ datasetTitle = Blank
  /\ year = NoYear
  /\ brand = Blank
  /\ desc = Blank
  /\ rows = <<>>
  /\ errors = <<>>
  /\ saveStatus = NoStatus
  /\ showNeededOnly = FALSE
  /\ sortKey = NoKey
  /\ sortDir = "asc"
  /\ saveTimer = NoTimer
  /\ displayRows = <<>>
  /\ timers = {}
  /\ timerSeq = 0
  /\ parses = {}
  /\ routePending = NoRoute
  /\ mutated = FALSE
  /\ rowsSetBy = "init"
  /\ event = [op |-> "init", id |-> NoTimer, wrote |-> FALSE,
              dirty |-> FALSE, arg |-> NoKey]

\* imports of the probe files and picks in the Grade select
NextImport ==
  \/ \E f \in ProbeFiles : handleFileChosen(f)
  \/ \E p \in parses : ParseComplete(p)
  \/ \E i \in Displayed, g \in GradeChoices : onChangeGrade(i, g)
  \/ \E t \in timers : TimerFire(t)

SpecImport == InitImport /\ [][NextImport]_vars

(* ---------------------- the cell handlers, called ---------------------- *)
\* the saved tables the handlers are called on: none or one row
CellTables == {<<>>} \cup {<<r>> : r \in RowPool}

\* the field and value of the calls of onChangeCell: the two fields the
\* table renders read-only, a seller's name over the limit, and texts typed
\* in a currency cell
CellCalls ==
  { <<"Card #", <<"9">>>>,
    <<"Description", <<"x">>>>,
    <<"Purchased From", LongSeller>>,
    <<"Cost", <<"7">>>>,
    <<"Cost", <<"a","b","c">>>>,
    <<"Cost", <<"1","-","2">>>>,
    <<"Cost", <<" ">>>> }

\* the editor opened on a saved set, no timer created yet
InitCells ==
  /\ locale \in Locales
  /\ writable = TRUE
  /\ \E rs \in CellTables :
    /\ localStorage = StoredSet(rs)
    /\ paramSlug = SortSlug
    /\ LET st == EffectState(localStorage, SortSlug, MountState(SortSlug)) IN
       /\ slug = st.slug
       /\ datasetTitle = st.datasetTitle
       /\ year = st.year
       /\ brand = st.brand
       /\ desc = st.desc
       /\ rows = st.rows
    /\ errors = <<>>
    /\ saveStatus = NoStatus
    /\ showNeededOnly = FALSE
    /\ sortKey = NoKey
    /\ sortDir = "asc"
    /\ saveTimer = NoTimer
    /\ displayRows \in Views(rows, FALSE, NoKey, "asc")
    /\ timers = {}
    /\ timerSeq = 0
    /\ parses = {}
    /\ routePending = NoRoute
    /\ mutated = TRUE
    /\ rowsSetBy = "load"
    /\ event = [op |-> "OpenPage", id |-> NoTimer, wrote |-> FALSE,
                dirty |-> FALSE, arg |-> NoKey]

\* the handlers called with every index they accept, not only with the
\* indices the rendered table passes
NextCells ==
  \/ \E i \in 0..Len(rows), e \in CellCalls : onChangeCell(i, e[1], e[2])
  \/ \E i \in 0..Len(rows), f \in {"Cost", "Value"} : onBlurCurrency(i, f)
  \/ \E i \in 0..Len(rows) : onBlurDate(i)
  \/ \E t \in timers : TimerFire(t)

SpecCells == InitCells /\ [][NextCells]_vars

(* ------------------ damaged storage and failing writes ----------------- *)
\* a storage whose key holds the text, or lacks the key for Absent: what
\* other code of the origin or the user's tools left there
WithText(store, key, text) ==
  IF text = Absent THEN [k \in DOMAIN store \ {key} |-> store[k]]
  ELSE setItem(store, key, text)

\* the row of the set that was saved
SavedTable == <<NormalizeRow(RawRecords[1])>>

\* the storage of a saved set, with its index entry and its set entry as
\* they were written, missing, unparsable, or (the index) no array
DamagedStores ==
  { WithText(WithText(StoredSet(SavedTable), IndexKey, it),
             SetKey(SortSlug), st) :
      it \in {getItem(StoredSet(SavedTable), IndexKey), Absent, Corrupt,
              NotArray},
      st \in {getItem(StoredSet(SavedTable), SetKey(SortSlug)), Absent,
              Corrupt} }

\* the storage starts or stops taking writes: the quota is reached or
\* freed, storage is denied or allowed
QuotaChange ==
  /\ writable' = ~writable
  /\ event' = Ev("QuotaChange", NoTimer, FALSE)
  /\ UNCHANGED <<locale, localStorage, paramSlug, slug, datasetTitle, year,
                 brand, desc, rows, errors, saveStatus, showNeededOnly,
                 sortKey, sortDir, saveTimer, displayRows, timers, timerSeq,
                 parses, routePending, mutated, rowsSetBy>>

\* the editor opened at /set/new or on the set's page over such a storage
InitStorage ==
  /\ locale = "en-US"
  /\ writable = TRUE
  /\ \E store \in DamagedStores, p \in {NewSlug, SortSlug} :
    /\ localStorage = store
    /\ paramSlug = p
    /\ LET st == EffectState(store, p, MountState(p)) IN
       /\ slug = st.slug
       /\ datasetTitle = st.datasetTitle
       /\ year = st.year
       /\ brand = st.brand
       /\ desc = st.desc
       /\ rows = st.rows
    /\ errors = <<>>
    /\ saveStatus = NoStatus
    /\ showNeededOnly = FALSE
    /\ sortKey = NoKey
    /\ sortDir = "asc"
    /\ saveTimer = NoTimer
    /\ displayRows \in Views(rows, FALSE, NoKey, "asc")
    /\ timers = {}
    /\ timerSeq = 0
    /\ parses = {}
    /\ routePending = NoRoute
    /\ mutated = TRUE
    /\ rowsSetBy = "load"
    /\ event = [op |-> "OpenPage", id |-> NoTimer, wrote |-> FALSE,
                dirty |-> FALSE, arg |-> NoKey]

NextStorage ==
  \/ \E y \in Years : setYear(y)
  \/ \E b \in BRANDS : setBrand(b)
  \/ setDesc(FirstDesc)
  \/ handleCreateTitle
  \/ RouteReplaced
  \/ \E i \in Displayed : onChangeCell(i, "Owned", Yes)
  \/ \E t \in timers : TimerFire(t)
  \/ QuotaChange

SpecStorage == InitStorage /\ [][NextStorage]_vars

(* ------------------------ the home page (25-93) ------------------------ *)
\* the home page's loadIndex: Array.isArray(arr) ? arr : []
HomeLoadIndex(store) ==
  IF IndexIsArray(store) THEN loadIndex(store) ELSE <<>>

\* a finite number kept exact: v / 10^d, with no trailing zero in the
\* fraction
RECURSIVE Canon(_)
Canon(x) ==
  IF x.d > 0 /\ x.v % 10 = 0 THEN Canon([v |-> x.v \div 10, d |-> x.d - 1])
  ELSE x

Dec(v, d) == Canon([v |-> v, d |-> d])

\* a + b and a - b
AddDec(a, b) ==
  LET d == IF a.d > b.d THEN a.d ELSE b.d IN
  Dec(a.v * Pow10(d - a.d) + b.v * Pow10(d - b.d), d)

SubDec(a, b) == AddDec(a, [b EXCEPT !.v = 0 - b.v])

\* toNumber of a text: "$" and "," removed, trimmed, Number(), and 0 for
\* what is no finite number
toNumber(v) ==
  LET cleaned == trim(SelectSeq(v, LAMBDA c : c \notin {"$", ","}))
      n == Number(cleaned)
  IN IF IsNaN(n) THEN Dec(0, 0) ELSE Dec(Signed(n), n.d)

RECURSIVE SumField(_, _)
\* rows.reduce((acc, r) => acc + toNumber(r[field]), 0)
SumField(rs, field) ==
  IF rs = <<>> THEN Dec(0, 0)
  ELSE AddDec(SumField(SubSeq(rs, 1, Len(rs) - 1), field),
              toNumber(rs[Len(rs)][field]))

computeFinancials(rs) ==
  LET totalCost == SumField(rs, "Cost")
      totalValue == SumField(rs, "Value")
  IN [totalCost |-> totalCost, totalValue |-> totalValue,
      gainLoss |-> SubDec(totalValue, totalCost)]

StatFields == {"ownedCount", "ownedPct", "totalCost", "totalValue", "gainLoss"}

\* an entry taken as it is when only its owned statistics are numbers
CachedOwnedStats(e) == {"ownedCount", "ownedPct"} \subseteq DOMAIN e

\* the five typeof tests of the effect: a field an entry lacks is undefined
HasCachedStats(e) == StatFields \subseteq DOMAIN e

\* the entry the effect keeps in `sets` for the index entry e
WithStats(store, e) ==
  IF HasCachedStats(e) THEN e
  ELSE LET saved == loadSet(store, e.slug)
           rs == IF saved.found THEN saved.set.rows ELSE <<>>
           owned == computeOwnedStats(rs)
           fin == computeFinancials(rs)
           stats == [ownedCount |-> owned.ownedCount,
                     ownedPct |-> owned.ownedPct,
                     totalCost |-> fin.totalCost,
                     totalValue |-> fin.totalValue,
                     gainLoss |-> fin.gainLoss]
       IN [k \in DOMAIN e \cup StatFields |->
             IF k \in StatFields THEN stats[k] ELSE e[k]]

\* the state `sets` of the home page mounted over the storage
HomePage(store) ==
  LET idx == HomeLoadIndex(store) IN
  [i \in 1..Len(idx) |-> WithStats(store, idx[i])]

\* what a card of the home page shows for an entry s of `sets`: a
\* statistic that is no number is shown as 0
Shown(s) ==
  LET owned == IF "ownedCount" \in DOMAIN s THEN s.ownedCount ELSE 0
      pct == IF "ownedPct" \in DOMAIN s THEN s.ownedPct ELSE Ratio(0, 1)
      totalCost == IF "totalCost" \in DOMAIN s THEN s.totalCost
                   ELSE Dec(0, 0)
      totalValue == IF "totalValue" \in DOMAIN s THEN s.totalValue
                    ELSE Dec(0, 0)
      gainLoss == IF "gainLoss" \in DOMAIN s THEN s.gainLoss
                  ELSE SubDec(totalValue, totalCost)
  IN [slug |-> s.slug, ownedCount |-> owned, ownedPct |-> pct,
      totalCost |-> totalCost, totalValue |-> totalValue,
      gainLoss |-> gainLoss]

(* ----------------------------- properties ----------------------------- *)
\* C1: when the autosave timer of a named set fires after cell edits and
\* writes, the Set written under the slug holds the rows the Row Store holds
\* at that moment, the last edit included
C1_WriteHoldsTheEdits ==
  (event.op = "TimerFire" /\ event.wrote /\ rowsSetBy = "edit")
    => /\ loadSet(localStorage, slug).found
       /\ loadSet(localStorage, slug).set.rows = rows

\* C2: at most one autosave is pending and it is the one scheduled last; the
\* timer that writes is the one scheduled last, never a superseded one, and
\* setRows was called since the autosave write before
C2_OnePendingAutosave ==
  /\ Cardinality(timers) <= 1
  /\ \A t \in timers : t.id = saveTimer
  /\ (event.op = "TimerFire" /\ event.wrote)
       => (event.id = saveTimer /\ event.dirty)

\* an autosave wrote after an earlier call of scheduleAutoSave was superseded
\* or had fired
C2_Witness ==
  /\ event.op = "TimerFire"
  /\ event.wrote
  /\ event.id = MaxTimers
  /\ rowsSetBy = "edit"

\* C3: an import that lacks an expected header reports exactly the expected
\* headers its input lacks, and leaves the Row Store as it was
C3_FailedImportKeepsRows ==
  [][event'.op = "importFailed" =>
       /\ rows' = rows
       /\ \E p \in parses :
            /\ parses' = parses \ {p}
            /\ errors' = <<[kind |-> "missing columns",
                            names |-> MissingHeaders(p.file.fields)]>>]_vars

\* the value of the sort field in the row displayed at position p
ShownValue(p) == displayRows[p].row[sortKey]

\* a blank value, and a value that is a number
IsBlankValue(v) == trim(stripCurrency(v)) = Blank
IsNumericValue(v) == ~IsBlankValue(v) /\ ~IsNaN(Number(stripCurrency(v)))

\* two numbers in the order of the direction, equal ones included
InDirection(a, b) ==
  IF sortDir = "asc" THEN ~NumLess(b, a) ELSE ~NumLess(a, b)

\* C4: sorted by Grade or Card #, no blank value is displayed before a
\* numeric one, in either direction, and the numeric values are displayed in
\* numeric order of the direction
C4_BlankAfterNumeric ==
  sortKey \in {"Grade", "Card #"} =>
    \A p, q \in 1..Len(displayRows) :
      p < q =>
        /\ ~(IsBlankValue(ShownValue(p)) /\ IsNumericValue(ShownValue(q)))
        /\ (IsNumericValue(ShownValue(p)) /\ IsNumericValue(ShownValue(q)))
             => InDirection(Number(ShownValue(p)), Number(ShownValue(q)))

\* a value that is blank or the number zero
IsBlankOrZero(v) ==
  IsBlankValue(v) \/ (IsNumericValue(v) /\ NumIsZero(Number(stripCurrency(v))))

IsNonZeroValue(v) == IsNumericValue(v) /\ ~IsBlankOrZero(v)

\* C5: sorted by a currency field, no blank or zero value is displayed
\* before a non-zero one, in either direction, and the non-zero values are
\* displayed in numeric order of the direction
C5_CurrencyBlankZeroLast ==
  sortKey \in CURRENCY_FIELDS =>
    \A p, q \in 1..Len(displayRows) :
      p < q =>
        /\ ~(IsBlankOrZero(ShownValue(p)) /\ IsNonZeroValue(ShownValue(q)))
        /\ (IsNonZeroValue(ShownValue(p)) /\ IsNonZeroValue(ShownValue(q)))
             => InDirection(Number(stripCurrency(ShownValue(p))),
                            Number(stripCurrency(ShownValue(q))))

\* C6: for every sort field and direction, two rows the comparator treats
\* as equal are displayed in the order of their indices in the Row Store
C6_SortIsStable ==
  sortKey # NoKey =>
    \A p, q \in 1..Len(displayRows) :
      (p < q /\ cmp(displayRows[p], displayRows[q], sortKey,
                    IF sortDir = "asc" THEN 1 ELSE -1) = 0)
        => displayRows[p].origIndex < displayRows[q].origIndex

\* the indices of the rows that pass the filter
Passing ==
  {i \in 0..(Len(rows) - 1) : ~showNeededOnly \/ rows[i + 1]["Owned"] # Yes}

\* C7: for every content of the Row Store, filter setting and sort key and
\* direction, the view holds the pair (rows[i], i) exactly once for exactly
\* the i that pass the filter, so that an origIndex addresses in the Row
\* Store the row displayed with it
C7_ViewHoldsEachPassingRowOnce ==
  /\ Len(displayRows) = Cardinality(Passing)
  /\ \A p \in 1..Len(displayRows) :
       /\ displayRows[p].origIndex \in Passing
       /\ displayRows[p].row = rows[displayRows[p].origIndex + 1]
  /\ \A p, q \in 1..Len(displayRows) :
       p # q => displayRows[p].origIndex # displayRows[q].origIndex

\* a cell was edited from a view that is filtered and sorted, and whose
\* first row is not the first row of the Row Store
C7_Witness ==
  /\ event.op = "onChangeCell"
  /\ showNeededOnly
  /\ sortKey # NoKey
  /\ Len(displayRows) >= 2
  /\ Len(displayRows) < Len(rows)
  /\ displayRows[1].origIndex # 0

\* C8: a click on a header that is not the sort key makes it the sort key,
\* descending for Grade, Cost, Value and Target Price and ascending for the
\* others; a click on the sort key keeps it and flips the direction; no
\* click changes the Row Store
C8_SortClicks ==
  [][event'.op = "handleSortClick" =>
       /\ rows' = rows
       /\ sortKey' = event'.arg
       /\ IF sortKey # event'.arg
          THEN sortDir' = (IF event'.arg \in {"Grade", "Cost", "Value",
                                              "Target Price"}
                           THEN "desc" ELSE "asc")
          ELSE /\ sortDir' \in {"asc", "desc"}
               /\ sortDir' # sortDir]_vars

\* Grade, first clicked to descending, was clicked again
C8_Witness ==
  /\ event.op = "handleSortClick"
  /\ event.arg = "Grade"
  /\ sortKey = "Grade"
  /\ sortDir = "asc"

\* base-k
Suffixed(base, k) == base \o <<"-">> \o NatToText(k)

\* the base slugs of the titles the form can give, and those with a suffix
SlugBases ==
  LET bases == {slugify(TitleOf(y, b, d)) :
                  y \in Years, b \in BRANDS, d \in Descs}
  IN bases \cup {Suffixed(base, 2) : base \in bases}

\* C9: ensureUniqueSlug(base) is base when no index entry has that slug, and
\* otherwise base-k for the least k >= 2 that no index entry has; it is never
\* the slug of an index entry, so that datasets named one after the other
\* with the same base slug get base, base-2, and so on
C9_UniqueSlug ==
  /\ \A base \in SlugBases :
       LET unique == ensureUniqueSlug(localStorage, base) IN
       /\ unique \notin KnownSlugs
       /\ base \notin KnownSlugs => unique = base
       /\ base \in KnownSlugs =>
            \E k \in 2..(Cardinality(KnownSlugs) + 1) :
              /\ unique = Suffixed(base, k)
              /\ \A j \in 2..(k - 1) : Suffixed(base, j) \in KnownSlugs
  /\ LET idx == loadIndex(localStorage)
         base == slugify(TitleOf(2020, <<"T","o","p","p","s">>, FirstDesc))
     IN \A i \in 1..Len(idx) :
          idx[i].slug = IF i = 1 THEN base ELSE Suffixed(base, i)

\* a second dataset was named with the base slug of the first
C9_Witness ==
  /\ event.op = "handleCreateTitle"
  /\ Len(loadIndex(localStorage)) = 2
  /\ slug = Suffixed(loadIndex(localStorage)[1].slug, 2)
  /\ loadSet(localStorage, slug).found

\* owned = [Yes, No, Yes, blank]
OwnedExample ==
  [i \in 1..4 |->
     [BlankRecord EXCEPT !["Owned"] = <<Yes, No, Yes, Blank>>[i]]]

\* C10: after Save Title and autosave writes, every index entry agrees with
\* the Set persisted under its slug: rowCount is the number of its rows,
\* ownedCount the number of its rows with Owned = "Yes", and ownedPct is
\* 100 * ownedCount / rowCount, or 0 for no rows; [Yes, No, Yes, blank]
\* gives ownedCount 2 and ownedPct 50
C10_IndexAgreesWithSet ==
  /\ LET idx == loadIndex(localStorage) IN
     \A i \in 1..Len(idx) :
       LET e == idx[i]
           st == loadSet(localStorage, e.slug)
           owned == {j \in 1..Len(st.set.rows) :
                       st.set.rows[j]["Owned"] = Yes}
       IN /\ st.found
          /\ e.rowCount = Len(st.set.rows)
          /\ e.ownedCount = Cardinality(owned)
          /\ e.ownedPct.den # 0
          /\ IF e.rowCount > 0
             THEN e.ownedPct.num * e.rowCount
                    = 100 * e.ownedCount * e.ownedPct.den
             ELSE e.ownedPct.num = 0
  /\ computeOwnedStats(OwnedExample).ownedCount = 2
  /\ computeOwnedStats(OwnedExample).ownedPct.num
       = 50 * computeOwnedStats(OwnedExample).ownedPct.den

\* an autosave wrote a set of which some rows are owned and some are not
C10_Witness ==
  /\ event.op = "TimerFire"
  /\ event.wrote
  /\ \E i \in 1..Len(loadIndex(localStorage)) :
       LET e == loadIndex(localStorage)[i] IN
       /\ e.slug = slug
       /\ e.rowCount = 2
       /\ e.ownedCount = 1

\* C11: a save replaces the index entry of its slug or appends one when
\* there is none; it leaves every other entry and the order of the entries
\* as they were, and the index never holds two entries of one slug
C11_OneEntryPerSlug ==
  [][LET old == loadIndex(localStorage)
         new == loadIndex(localStorage')
     IN /\ Len(new) \in {Len(old), Len(old) + 1}
        /\ \A i \in 1..Len(old) : new[i].slug = old[i].slug
        /\ Cardinality({i \in 1..Len(old) : new[i] # old[i]}) <= 1
        /\ Len(new) = Len(old) + 1 =>
             \A i \in 1..Len(old) :
               new[i] = old[i] /\ new[Len(new)].slug # old[i].slug
        /\ \A i, j \in 1..Len(new) :
             i # j => new[i].slug # new[j].slug]_vars

\* an autosave wrote the set whose entry is the first of two in the index
C11_Witness ==
  /\ event.op = "TimerFire"
  /\ event.wrote
  /\ Len(loadIndex(localStorage)) = 2
  /\ loadIndex(localStorage)[1].slug = slug

\* the steps of the three cell handlers
CellOps == {"onChangeCell", "onBlurCurrency", "onBlurDate"}

C17_BlurIsTheImportRule ==
  [][event'.op = "onBlurCurrency" /\ Len(rows') = Len(rows) =>
       \E i \in 1..Len(rows), f \in CURRENCY_FIELDS :
         rows' = [rows EXCEPT ![i][f] = NormCurrency(rows[i][f])]]_vars

\* C14: in every Row Store state the Purchased From of every row is at most
\* 50 characters long, whether an import or a cell update stored it.
C14_PurchasedFromAtMost50 ==
  \A i \in 1..Len(rows) : Len(rows[i]["Purchased From"]) <= PurchasedFromMax

\* twice the distance of the number n from the grade h / 2, in units of
\* 10^-d
GradeDistance(n, h) ==
  LET diff == 2 * Signed(n) - h * Pow10(n.d) IN
  IF diff < 0 THEN 0 - diff ELSE diff

\* the Grade text out is what the claim gives for the raw text: blank for a
\* blank text, for a number a grade of 1..10 in halves that no other such
\* grade is nearer to, and for any other text the text itself when it is a
\* grade of the set and blank otherwise
GradeAsClaimed(raw, out) ==
  LET s == trim(raw)
      n == Number(s)
  IN IF s = Blank THEN out = Blank
     ELSE IF ~IsNaN(n)
     THEN \E h \in 2..20 :
            /\ out = HalvesText(h)
            /\ \A k \in 2..20 : GradeDistance(n, h) <= GradeDistance(n, k)
     ELSE out = (IF s \in GRADES_NUMERIC THEN s ELSE Blank)

\* C15: an import stores for every record the grade nearest to its Grade
\* text, clamped to 1..10 (blank for a blank or non-numeric text), and after
\* every import and every pick in the Grade select the Grade of every row is
\* blank or one of 1, 1.5, ..., 10.
C15_GradeInTheSet ==
  [][/\ event'.op = "imported" =>
          \E p \in parses :
            /\ parses' = parses \ {p}
            /\ Len(rows') = Len(p.file.data)
            /\ \A i \in 1..Len(rows') :
                 GradeAsClaimed(Field(p.file.data[i], "Grade"),
                                rows'[i]["Grade"])
     /\ \A i \in 1..Len(rows') : rows'[i]["Grade"] \in GRADES_NUMERIC]_vars

\* an import stored 7.5 for the record whose Grade text is 7.3
C15_Witness ==
  /\ event.op = "imported"
  /\ Len(rows) = 1
  /\ rows[1]["Grade"] = HalvesText(15)
  /\ rows[1]["Purchased From"] = LongSeller

\* C16: the rows an import stored are fixed points of the normalization of
\* a row: normalizing one again gives the same row in every field.
C16_NormalizationIdempotent ==
  rowsSetBy = "import" =>
    \A i \in 1..Len(rows) : NormalizeRow(rows[i]) = rows[i]

\* the same, in a browser whose default locale is en-US
C16_IdempotentInEnUS ==
  locale = "en-US" => C16_NormalizationIdempotent

\* C18: damaged or missing persisted content raises no error: while the
\* storage takes writes, no handler is left by an exception, and a save over
\* an index that is missing, unparsable or no array writes an index that
\* holds exactly the entry of the set saved.
C18_DamagedStorageRaisesNothing ==
  [][writable =>
       /\ event'.op # Uncaught
       /\ (event'.wrote /\ getItem(localStorage, IndexKey).kind # "json") =>
            /\ Len(loadIndex(localStorage')) = 1
            /\ loadIndex(localStorage')[1].slug = slug']_vars

\* C19: a write that fails during an autosave or Save Title is swallowed:
\* over an index that is an array no handler is left by an exception while
\* the storage refuses writes, and the step leaves the Row Store as it was.
C19_FailedWriteSwallowed ==
  [][(~writable /\ IndexIsArray(localStorage)) =>
       /\ event'.op # Uncaught
       /\ (event'.op \in {"TimerFire", "handleCreateTitle"} =>
             rows' = rows)]_vars

\* the rows persisted under a slug, none when there is no such set
PersistedRows(sl) ==
  LET saved == loadSet(localStorage, sl) IN
  IF saved.found THEN saved.set.rows ELSE <<>>

\* the cells of a field that hold a number, "$" and "," aside
NumericCells(rs, field) ==
  {j \in 1..Len(rs) :
     ~IsNaN(Number(SelectSeq(rs[j][field], LAMBDA c : c \notin {"$", ","})))}

C21_NothingPersistedUnnamed ==
  [][/\ (\E t \in timers : timers' = timers \ {t} /\ Unnamed(t.c)) =>
          localStorage' = localStorage
     /\ (event'.op = "TimerFire" /\ Unnamed(Closure)) =>
          localStorage' = localStorage
     /\ SetKey(NewSlug) \notin DOMAIN localStorage'
     /\ \A i \in 1..Len(loadIndex(localStorage')) :
          loadIndex(localStorage')[i].slug # NewSlug
     /\ \A k \in DOMAIN localStorage' \ DOMAIN localStorage :
          k # IndexKey =>
            /\ event'.op = "handleCreateTitle"
            /\ k = SetKey(slug')
            /\ localStorage'[k].kind = "json"
            /\ localStorage'[k].val.rows = rows]_vars

\* Save Title wrote the first Set of a dataset with imported rows, after the
\* timer of the import had fired on the unnamed dataset without writing
C21_Witness ==
  /\ event.op = "handleCreateTitle"
  /\ event.wrote
  /\ rows # <<>>
  /\ timers = {}
  /\ timerSeq >= 1
  /\ Len(loadIndex(localStorage)) = 1
  /\ loadSet(localStorage, slug).found
  /\ loadSet(localStorage, slug).set.rows = rows

====
